---- MODULE Spec2Model ----
(***************************************************************************)
(* The task lifecycle of the holo-sounds backend: the task registry TASKS, *)
(* the download queue and its single worker (download_worker.py), the      *)
(* cleanup sweeper (cleanup.py), the process handler (process_handler.py)  *)
(* and the task-creating endpoint (main.py).                               *)
(*                                                                         *)
(* All coroutines run on one asyncio event loop: a step of a coroutine,    *)
(* from one await to the next, is one atomic action.  The download         *)
(* subprocess is a separate OS process and the clock advances on its own.  *)
(***************************************************************************)
EXTENDS Integers, Sequences, FiniteSets, TLC

\* ------------------------------------------------------------------ bounds
MaxTasks == 2
\* time passes in steps of TickStep seconds; the age of a directory,
\* time.time() minus its mtime, is followed up to MaxAge seconds
TickStep == 5400
MaxAge == 5400
\* the times of a process request (start, end, fade_in, fade_out), in whole
\* seconds, go up to MaxSeconds; the fades also take the value -1
MaxSeconds == 3

\* ------------------------------------------------------- program constants
\* cleanup.py:53  if dir_age > 3600
Retention == 3600
\* cleanup.py:25  await asyncio.sleep(300)
SweepPeriod == 300
\* cleanup.py:28  await asyncio.sleep(60)
RetryBackoff == 60

\* task ids: uuid4 values, modelled as fresh numbers handed out in order
TaskIds == 1..MaxTasks

\* the value of error_message of a task that has none (Python None)
None == "None"

\* the text of yt-dlp's stderr as bytes: empty, UTF-8 text, bytes that are
\* not valid UTF-8
StderrBytes == {"", "ERROR: Video unavailable", "\\xff\\xfe"}

VARIABLES
  TASKS,      \* keys of the registry dict TASKS (download_worker.py:10)
  task,       \* the dict object created for each task id: state, error_message,
              \* and (history) seen, the values its state has taken in order
  QUEUE,      \* asyncio.Queue of task ids (download_worker.py:9)
  nextId,     \* the next fresh task id
  wPc,        \* download worker: "get" (awaiting QUEUE.get) or "communicate"
  wTask,      \* the worker's locals task_id and task: the id it last looked
              \* up and found (0: none)
  dirs,       \* /tmp/<task_id> directories: age (time.time() - st_mtime) and
              \* whether audio.m4a is present
  sPc,        \* cleanup worker: "run" (about to sweep), "passed" (the pass is
              \* over, the sleep not yet begun), "sleep"
  sleepFor,   \* the argument of the sweeper's pending asyncio.sleep (0: none)
  lastPass,   \* the pass just made: what it did (until the sleep begins) and
              \* how it ended (until the sleep is over)
  hPc,        \* the request handler that holds the event loop: "idle" (none),
              \* "ffmpeg" (process_audio in subprocess.run), "return"
              \* (process_audio at its end), "status" (get_task_status at
              \* its end), "unrouted" (the framework answering a request
              \* no route serves)
  call,       \* the process request being served and its response so far
  started,    \* history: task ids in the order their yt-dlp was spawned
  submitted,  \* history: task ids in the order they were put on QUEUE
  running,    \* history: task ids whose yt-dlp process has not yet exited
  exits,      \* history: per task, how its yt-dlp ended (rc, stderr, file)
  reply,      \* the response of the status query, or of the request no
              \* route serves, being answered
  request,    \* a ProcessRequest whose filter chain is built (models.py:18)
  filters,    \* process_audio's list filters (process_handler.py:35)
  wExc,       \* history: the exception the worker's except branch caught in
              \* its last iteration ("none": it caught none)
  unfinished  \* QUEUE's count of unfinished items: put adds one, task_done
              \* takes one off

vars == <<TASKS, task, QUEUE, nextId, wPc, wTask, dirs, sPc, sleepFor,
          lastPass, hPc, call, started, submitted, running, exits, reply,
          request, filters, wExc, unfinished>>

Range(s) == {s[i] : i \in 1..Len(s)}

\* f without the keys in S, and f on the keys in S only
Without(f, S) == [k \in (DOMAIN f) \ S |-> f[k]]
Restrict(f, S) == [k \in (DOMAIN f) \cap S |-> f[k]]

Min(a, b) == IF a < b THEN a ELSE b

NoCall == [task_id |-> 0, status |-> 0, detail |-> "none", ran |-> FALSE,
           created |-> FALSE]

\* no pass to report
NoPass == [outcome |-> "none", statFails |-> {}, rmFails |-> {},
           removed |-> {}, dropped |-> {}, reconciled |-> {}]

\* no status query being answered
NoReply == [request |-> "none", task_id |-> 0, status |-> 0, detail |-> "none",
            state |-> "none", error_message |-> None]

\* no request at hand
NoRequest == [start |-> 0, end |-> 0, fade_in |-> 0, fade_out |-> 0,
              denoise |-> FALSE, none |-> TRUE]

\* the state after construction, but for the request at hand
Started ==
  /\ TASKS = {}
  /\ task = <<>>
  /\ QUEUE = <<>>
  /\ nextId = 1
  /\ wPc = "get"
  /\ wTask = 0
  /\ dirs = <<>>
  /\ sPc = "run"
  /\ sleepFor = 0
  /\ lastPass = NoPass
  /\ hPc = "idle"
  /\ call = NoCall
  /\ started = <<>>
  /\ submitted = <<>>
  /\ running = {}
  /\ exits = <<>>
  /\ reply = NoReply
  /\ filters = <<>>
  /\ wExc = "none"
  /\ unfinished = 0

Init == Started /\ request = NoRequest

\* ------------------------------------------------------------- event loop
\* (mutant) the handler awaits its subprocess and the loop runs on
LoopYields == TRUE

\* process_audio calls the blocking subprocess.run inside a coroutine: the
\* event loop runs nothing else until the handler returns.  Nor does it
\* between the end of a sweep pass and the await of the sleep after it.
LoopFree == hPc = "idle" /\ sPc # "passed"

\* ------------------------------------------------------------------ clock
\* TickStep seconds pass: every directory is that much older
Tick ==
  /\ \E d \in DOMAIN dirs : dirs[d].age < MaxAge
  /\ dirs' = [d \in DOMAIN dirs |->
                [dirs[d] EXCEPT !.age = Min(@ + TickStep, MaxAge)]]
  /\ UNCHANGED <<TASKS, task, QUEUE, nextId, wPc, wTask, sPc, sleepFor,
                 lastPass, hPc, call, started, submitted, running, exits,
                 reply, request, filters, wExc, unfinished>>

\* the task dicts that are still referred to: by the registry or by the
\* worker's local variable; the others are garbage
Collect(t, reg, ref) == Restrict(t, reg \cup {ref})

\* ------------------------------------------------- POST /api/download
\* main.py download_audio: registry entry first, then the id is enqueued
NewTask == [state |-> "queued", error_message |-> None, seen |-> <<"queued">>]

QueuePut(q, id) == Append(q, id)

\* (mutant) an id generator that repeats itself
Uuid4Repeating(n) == 1

\* str(uuid.uuid4()): a value not handed out before, here the n-th number
Uuid4(n) == n

CreateTask ==
  /\ LoopFree
  /\ nextId <= MaxTasks
  /\ LET task_id == Uuid4(nextId) IN
       /\ task' = (task_id :> NewTask) @@ task
       /\ TASKS' = TASKS \cup {task_id}
       /\ QUEUE' = QueuePut(QUEUE, task_id)
       /\ submitted' = Append(submitted, task_id)
  /\ unfinished' = unfinished + 1
  /\ nextId' = nextId + 1
  /\ UNCHANGED <<wPc, wTask, dirs, sPc, sleepFor, lastPass, hPc, call,
                 started, running, exits, reply, request, filters, wExc>>

\* ------------------------------------------------------- download worker
\* (mutant) the newest item first
QueueGetNewest(q) == [item |-> q[Len(q)], rest |-> SubSeq(q, 1, Len(q) - 1)]

\* QUEUE.get on a FIFO asyncio.Queue: the oldest item
QueueGet(q) == [item |-> Head(q), rest |-> Tail(q)]

\* tmp_dir.mkdir(exist_ok=True): a new directory gets the current time as
\* its mtime, an existing one is left as it is
Mkdir(d, id) ==
  IF id \in DOMAIN d THEN d
  ELSE d @@ (id :> [age |-> 0, audio |-> FALSE])

\* bytes.decode(): UTF-8, strict; raises UnicodeDecodeError on other bytes
IsUtf8(b) == b # "\\xff\\xfe"
Decode(b) == b

\* str(e) of the exceptions the worker's steps raise
StrOf(e) ==
  CASE e = "mkdir" -> "[Errno 28] No space left on device"
    [] e = "spawn" -> "[Errno 2] No such file or directory: 'yt-dlp'"
    [] e = "decode" -> "'utf-8' codec can't decode byte 0xff"

\* (mutant) no text for an empty stderr
FallbackEmpty == ""

\* the text stored when stderr is empty
FallbackMessage == "Download failed"

\* (mutant) a failed download goes back to queued
ExitStateRequeue(rc) == IF rc = 0 THEN "ready" ELSE "queued"

\* the state the worker writes for an exit code
ExitState(rc) == IF rc = 0 THEN "ready" ELSE "error"

\* task["state"] = v, on the dict of task id
SetState(t, id, v) ==
  [t EXCEPT ![id].state = v,
            ![id].seen = IF v = t[id].state THEN @ ELSE Append(@, v)]

\* (mutant) the except branch only logs
OnExceptionLogged(t, reg, id, e) == t

\* the except branch: the registry entry, if there still is one, becomes error
OnException(t, reg, id, e) ==
  IF id \in reg
    THEN [SetState(t, id, "error") EXCEPT ![id].error_message = StrOf(e)]
    ELSE t

\* (mutant) an exception ends the worker
NextIterationUnlessFaulted(faulted) == IF faulted THEN "stopped" ELSE "get"

\* where the worker goes at the end of an iteration, after finally, whether
\* or not the except branch ran: the while True loop takes the next item
NextIteration(faulted) == "get"

\* QUEUE.task_done()
TaskDone(n) == n - 1

\* (mutant) task_done at the end of the try block, not in finally
FinallyUnlessFaulted(n, faulted) == IF faulted THEN n ELSE TaskDone(n)

\* the finally clause, which runs on every way out of the try block: after
\* continue, at its end, and after the except branch
Finally(n, faulted) == TaskDone(n)

\* One iteration from QUEUE.get to the first real suspension (the await of
\* proc.communicate()): lookup, state = downloading, mkdir, spawn.  mkdir and
\* the spawn may raise; both run synchronously, so the except branch runs in
\* the same step.
StartDownload ==
  /\ LoopFree
  /\ wPc = "get"
  /\ QUEUE # <<>>
  /\ LET g == QueueGet(QUEUE)
         id == g.item
     IN
     /\ QUEUE' = g.rest
     /\ IF id \notin TASKS
          THEN \* task not found: log, continue
               /\ wTask' = 0
               /\ task' = Collect(task, TASKS, 0)
               /\ exits' = Restrict(exits, TASKS)
               /\ wExc' = "none"
               /\ unfinished' = Finally(unfinished, FALSE)
               /\ UNCHANGED <<dirs, wPc, started, running>>
          ELSE \E outcome \in {"mkdir_raises", "spawn_raises", "spawned"} :
                 LET dl == SetState(task, id, "downloading")
                     t == CASE outcome = "mkdir_raises" ->
                                 OnException(dl, TASKS, id, "mkdir")
                            [] outcome = "spawn_raises" ->
                                 OnException(dl, TASKS, id, "spawn")
                            [] outcome = "spawned" -> dl
                 IN
                 /\ dirs' = IF outcome = "mkdir_raises" THEN dirs
                            ELSE Mkdir(dirs, id)
                 /\ task' = Collect(t, TASKS, id)
                 /\ exits' = Restrict(exits, TASKS)
                 /\ wTask' = id
                 /\ wExc' = CASE outcome = "mkdir_raises" -> "mkdir"
                              [] outcome = "spawn_raises" -> "spawn"
                              [] outcome = "spawned" -> "none"
                 /\ wPc' = IF outcome = "spawned" THEN "communicate"
                           ELSE NextIteration(TRUE)
                 /\ unfinished' = IF outcome = "spawned" THEN unfinished
                                  ELSE Finally(unfinished, TRUE)
                 /\ started' = IF outcome = "spawned" THEN Append(started, id)
                               ELSE started
                 /\ running' = IF outcome = "spawned" THEN running \cup {id}
                               ELSE running
  /\ UNCHANGED <<TASKS, nextId, sPc, sleepFor, lastPass, hPc, call,
                 submitted, reply, request, filters>>

\* yt-dlp, a separate process, writes /tmp/<task_id>/audio.m4a; creating the
\* file sets the directory's mtime
YtDlpWritesAudio ==
  /\ wPc = "communicate"
  /\ wTask \in DOMAIN dirs
  /\ ~dirs[wTask].audio
  /\ dirs' = [dirs EXCEPT ![wTask] = [@ EXCEPT !.audio = TRUE, !.age = 0]]
  /\ UNCHANGED <<TASKS, task, QUEUE, nextId, wPc, wTask, sPc, sleepFor,
                 lastPass, hPc, call, started, submitted, running, exits,
                 reply, request, filters, wExc, unfinished>>

\* the task dict after proc.communicate() returned rc and stderr
AfterExit(t, reg, id, rc, err) ==
  IF rc = 0 THEN SetState(t, id, ExitState(rc))
  ELSE LET failed == SetState(t, id, ExitState(rc)) IN
       IF err = "" THEN [failed EXCEPT ![id].error_message = FallbackMessage]
       ELSE IF IsUtf8(err)
              THEN [failed EXCEPT ![id].error_message = Decode(err)]
              ELSE OnException(failed, reg, id, "decode")

\* whether handling (rc, err) raises: only the decoding of stderr can
ExitRaises(rc, err) == rc # 0 /\ err # "" /\ ~IsUtf8(err)

\* proc.communicate() returns: the rest of the iteration, with finally
FinishDownload ==
  /\ LoopFree
  /\ wPc = "communicate"
  /\ \E rc \in {0, 1}, err \in StderrBytes :
       /\ task' = AfterExit(task, TASKS, wTask, rc, err)
       /\ exits' = exits @@ (wTask :>
            [rc |-> rc,
             stderr |-> IF rc = 0 THEN "" ELSE err,
             audio |-> wTask \in DOMAIN dirs /\ dirs[wTask].audio])
       /\ wPc' = NextIteration(ExitRaises(rc, err))
       /\ wExc' = IF ExitRaises(rc, err) THEN "decode" ELSE "none"
       /\ unfinished' = Finally(unfinished, ExitRaises(rc, err))
  /\ running' = running \ {wTask}
  /\ UNCHANGED <<TASKS, QUEUE, nextId, wTask, dirs, sPc, sleepFor, lastPass,
                 hPc, call, started, submitted, reply, request, filters>>

\* ---------------------------------------------------------------- sweeper
\* (mutant) a retention of 24 hours
AgedOneDay(S) == {d \in S : dirs[d].age > 86400}

\* the directories of S older than the retention threshold
Aged(S) == {d \in S : dirs[d].age > Retention}

\* the argument of the sleep that follows a pass
SleepAfter(outcome) == IF outcome = "raised" THEN RetryBackoff ELSE SweepPeriod

\* (mutant) a pass that raises ends the sweeper
SweeperAfterUncaught(outcome) == IF outcome = "raised" THEN "exit" ELSE "sleep"

\* where cleanup_worker goes after a pass, raised or not: it sleeps and loops
SweeperAfter(outcome) == "sleep"

\* (mutant) the second loop removes nothing
StaleNone(reg, left) == {}

\* (mutant) the second loop does not look at the state
StaleAnyState(reg, left) == {t \in reg : t \notin DOMAIN left}

\* tasks_to_remove: the entries of the registry reg in state ready or error
\* whose directory is not among the directories left
Stale(reg, left) ==
  {t \in reg : task[t].state \in {"ready", "error"} /\ t \notin DOMAIN left}

\* One call of cleanup_old_files (it awaits nothing: one step).  A pass that
\* raises outside the per-directory try saw only some directories (seen) and
\* does not reach the reconciliation loop.  Inside the try, stat may raise
\* (statFails: logged, the directory is skipped) and rmtree, ignore_errors=True,
\* may fail silently (rmFails: the directory stays, the registry entry goes).
\* A stat that raises on a younger directory changes nothing the pass would
\* have done, so statFails ranges over the aged directories only.
\* Every directory of the model is named by a task id, so the name check
\* (36 characters, 4 dashes) passes.
SweepPass ==
  /\ LoopFree
  /\ sPc = "run"
  /\ \E raised \in BOOLEAN :
     \E seen \in (IF raised THEN SUBSET (DOMAIN dirs) ELSE {DOMAIN dirs}) :
     \E statFails \in SUBSET Aged(seen) :
     \E rmFails \in SUBSET (Aged(seen) \ statFails) :
       LET old == Aged(seen) \ statFails
           left == Without(dirs, old \ rmFails)
           reg == TASKS \ old
           stale == IF raised THEN {} ELSE Stale(reg, left)
       IN
       /\ dirs' = left
       /\ TASKS' = reg \ stale
       /\ task' = Collect(task, reg \ stale, wTask)
       /\ exits' = Restrict(exits, (reg \ stale) \cup {wTask})
       /\ lastPass' = [outcome |-> IF raised THEN "raised" ELSE "ok",
                       statFails |-> statFails, rmFails |-> rmFails,
                       removed |-> old \ rmFails,
                       dropped |-> TASKS \ (reg \ stale),
                       reconciled |-> stale]
  /\ sPc' = "passed"
  /\ UNCHANGED <<QUEUE, nextId, wPc, wTask, sleepFor, hPc, call, started,
                 submitted, running, reply, request, filters, wExc,
                 unfinished>>

\* cleanup_worker after the pass: await asyncio.sleep(300), or in the except
\* branch await asyncio.sleep(60)
SweeperSleeps ==
  /\ sPc = "passed"
  /\ sPc' = SweeperAfter(lastPass.outcome)
  /\ sleepFor' = SleepAfter(lastPass.outcome)
  /\ lastPass' = [NoPass EXCEPT !.outcome = lastPass.outcome]
  /\ UNCHANGED <<TASKS, task, QUEUE, nextId, wPc, wTask, dirs, hPc, call,
                 started, submitted, running, exits, reply, request, filters,
                 wExc, unfinished>>

\* the sweeper's asyncio.sleep is over
Wake ==
  /\ sPc = "sleep"
  /\ sPc' = "run"
  /\ sleepFor' = 0
  /\ lastPass' = NoPass
  /\ UNCHANGED <<TASKS, task, QUEUE, nextId, wPc, wTask, dirs, hPc, call,
                 started, submitted, running, exits, reply, request, filters,
                 wExc, unfinished>>

\* -------------------------------------------------------- process handler
\* (mutant) every state but queued passes
ReadyForProcessLoose(st) == st # "queued"

\* the state check of process_audio
ReadyForProcess(st) == st = "ready"

\* process_audio up to subprocess.run: the three checks, each answered with
\* an HTTPException before anything is run
ProcessBegin ==
  /\ LoopFree
  /\ hPc = "idle"
  /\ \E id \in TaskIds :
       LET req == [NoCall EXCEPT !.task_id = id] IN
       IF id \notin TASKS
         THEN /\ call' = [req EXCEPT !.status = 404, !.detail = "Task not found"]
              /\ hPc' = "return"
       ELSE IF ~ReadyForProcess(task[id].state)
         THEN /\ call' = [req EXCEPT !.status = 400,
                                     !.detail = "Task is not ready"]
              /\ hPc' = "return"
       ELSE IF ~(id \in DOMAIN dirs /\ dirs[id].audio)
         THEN /\ call' = [req EXCEPT !.status = 404,
                                     !.detail = "Source audio file not found"]
              /\ hPc' = "return"
       ELSE /\ call' = req
            /\ hPc' = "ffmpeg"
  /\ UNCHANGED <<TASKS, task, QUEUE, nextId, wPc, wTask, dirs, sPc, sleepFor,
                 lastPass, started, submitted, running, exits, reply,
                 request, filters, wExc, unfinished>>

\* subprocess.run(ffmpeg ...) and what follows it.  ffmpeg may write the
\* output (a new file: the directory's mtime is set), exit 0 without one, exit
\* non-zero (CalledProcessError) or fail to start (any other exception); each
\* ends in a FileResponse or an HTTPException.
ProcessRun ==
  /\ hPc = "ffmpeg"
  /\ LET id == call.task_id
         there == id \in DOMAIN dirs
     IN
     \E outcome \in (IF there THEN {"ok", "no_output"} ELSE {})
                      \cup {"ffmpeg_failed", "spawn_failed"} :
       /\ dirs' = IF outcome = "ok"
                    THEN [dirs EXCEPT ![id].age = 0]
                    ELSE dirs
       /\ call' = [call EXCEPT
                     !.ran = outcome # "spawn_failed",
                     !.created = outcome = "ok",
                     !.status = IF outcome = "ok" THEN 200 ELSE 500,
                     !.detail = CASE outcome = "ok" -> "clip.ogg"
                                  [] outcome = "ffmpeg_failed" ->
                                       "Audio processing failed"
                                  [] OTHER -> "Unexpected error"]
  /\ hPc' = "return"
  /\ UNCHANGED <<TASKS, task, QUEUE, nextId, wPc, wTask, sPc, sleepFor,
                 lastPass, started, submitted, running, exits, reply,
                 request, filters, wExc, unfinished>>

\* the handler returns its response or raises its HTTPException: the request
\* is over and the event loop is free again
ProcessReturn ==
  /\ hPc = "return"
  /\ hPc' = "idle"
  /\ call' = NoCall
  /\ UNCHANGED <<TASKS, task, QUEUE, nextId, wPc, wTask, dirs, sPc, sleepFor,
                 lastPass, started, submitted, running, exits, reply,
                 request, filters, wExc, unfinished>>

\* ------------------------------------------------------- the filter chain
\* the ProcessRequest values (models.py): floats, here whole seconds
Requests ==
  [start : 0..MaxSeconds, end : 0..MaxSeconds, fade_in : -1..MaxSeconds,
   fade_out : -1..MaxSeconds, denoise : BOOLEAN, none : {FALSE}]

\* "atrim=start={start}:end={end},asetpts=PTS-STARTPTS"
Atrim(start, end) == [f |-> "atrim", start |-> start, end |-> end,
                      asetpts |-> "PTS-STARTPTS"]

\* "afftdn=nr=20:nf=-25"
Afftdn == [f |-> "afftdn", nr |-> 20, nf |-> -25]

\* "afade=t={t}:st={st}:d={d}"
Afade(t, st, d) == [f |-> "afade", t |-> t, st |-> st, d |-> d]

\* (mutant) the fade-out is added whenever fade_out > 0
FilterChainUnguarded(r) ==
  LET duration == r.end - r.start
      f1 == <<Atrim(r.start, r.end)>>
      f2 == IF r.denoise THEN Append(f1, Afftdn) ELSE f1
      f3 == IF r.fade_in > 0 THEN Append(f2, Afade("in", 0, r.fade_in)) ELSE f2
  IN IF r.fade_out > 0
       THEN Append(f3, Afade("out", duration - r.fade_out, r.fade_out))
       ELSE f3

\* the list filters of process_audio, built by its appends in their order
FilterChain(r) ==
  LET duration == r.end - r.start
      f1 == <<Atrim(r.start, r.end)>>
      f2 == IF r.denoise THEN Append(f1, Afftdn) ELSE f1
      f3 == IF r.fade_in > 0 THEN Append(f2, Afade("in", 0, r.fade_in)) ELSE f2
  IN IF r.fade_out > 0 /\ r.fade_out < duration
       THEN Append(f3, Afade("out", duration - r.fade_out, r.fade_out))
       ELSE f3

\* process_audio builds the chain for the request at hand
BuildFilters ==
  /\ ~request.none
  /\ filters = <<>>
  /\ filters' = FilterChain(request)
  /\ UNCHANGED <<TASKS, task, QUEUE, nextId, wPc, wTask, dirs, sPc, sleepFor,
                 lastPass, hPc, call, started, submitted, running, exits,
                 reply, request, wExc, unfinished>>

\* ---------------------------------------------- GET /api/status/{task_id}
\* (mutant) the record as it was when the task was created
TaskStatusAsCreated(t, id) == [state |-> "queued", error_message |-> None]

\* TaskStatus(state=task["state"], error_message=task.get("error_message"))
TaskStatus(t, id) ==
  [state |-> t[id].state, error_message |-> t[id].error_message]

\* get_task_status: it awaits nothing, lookup and response are one step
GetTaskStatus ==
  /\ LoopFree
  /\ \E id \in TaskIds :
       reply' = IF id \notin TASKS
                  THEN [NoReply EXCEPT !.task_id = id, !.status = 404,
                                       !.detail = "Task not found"]
                  ELSE [NoReply EXCEPT
                          !.task_id = id, !.status = 200,
                          !.state = TaskStatus(task, id).state,
                          !.error_message = TaskStatus(task, id).error_message]
  /\ hPc' = "status"
  /\ UNCHANGED <<TASKS, task, QUEUE, nextId, wPc, wTask, dirs, sPc, sleepFor,
                 lastPass, call, started, submitted, running, exits, request,
                 filters, wExc, unfinished>>

\* the response of get_task_status is handed to the framework
StatusReturn ==
  /\ hPc = "status"
  /\ hPc' = "idle"
  /\ reply' = NoReply
  /\ UNCHANGED <<TASKS, task, QUEUE, nextId, wPc, wTask, dirs, sPc, sleepFor,
                 lastPass, call, started, submitted, running, exits, request,
                 filters, wExc, unfinished>>

\* ------------------------------------------------------------- the routes
\* the routes main.py declares, in their order
Routes ==
  {[method |-> "POST", path |-> "/api/download", handler |-> "download_audio"],
   [method |-> "GET", path |-> "/api/status/{task_id}",
    handler |-> "get_task_status"],
   [method |-> "POST", path |-> "/api/process",
    handler |-> "process_audio_endpoint"],
   [method |-> "GET", path |-> "/api/audio/{task_id}",
    handler |-> "get_audio_file"],
   [method |-> "GET", path |-> "/{full_path:path}",
    handler |-> "serve_react_app"]}

\* whether a path with no parameter in it matches a route's path
Matches(pattern, path) == pattern = path \/ pattern = "/{full_path:path}"

\* the handler that serves a request, "none" when no route does
Handler(method, path) ==
  IF \E r \in Routes : r.method = method /\ Matches(r.path, path)
    THEN (CHOOSE r \in Routes :
            r.method = method /\ Matches(r.path, path)).handler
    ELSE "none"

\* A client sends POST /cleanup.  main.py imports cleanup_old_files but has
\* no route that calls it: the only route whose path matches is the GET
\* catch-all, so the framework answers 405 and no handler runs.
PostCleanup ==
  /\ LoopFree
  /\ Handler("POST", "/cleanup") = "none"
  /\ reply' = [NoReply EXCEPT !.request = "POST /cleanup", !.status = 405,
                              !.detail = "Method Not Allowed"]
  /\ hPc' = "unrouted"
  /\ UNCHANGED <<TASKS, task, QUEUE, nextId, wPc, wTask, dirs, sPc, sleepFor,
                 lastPass, call, started, submitted, running, exits, request,
                 filters, wExc, unfinished>>

\* the framework's answer is sent
UnroutedReturn ==
  /\ hPc = "unrouted"
  /\ hPc' = "idle"
  /\ reply' = NoReply
  /\ UNCHANGED <<TASKS, task, QUEUE, nextId, wPc, wTask, dirs, sPc, sleepFor,
                 lastPass, call, started, submitted, running, exits, request,
                 filters, wExc, unfinished>>

\* ------------------------------------------------------------ the program
Next ==
  \/ Tick
  \/ CreateTask
  \/ StartDownload
  \/ YtDlpWritesAudio
  \/ FinishDownload
  \/ SweepPass
  \/ SweeperSleeps
  \/ Wake
  \/ ProcessBegin
  \/ ProcessRun
  \/ ProcessReturn
  \/ GetTaskStatus
  \/ StatusReturn
  \/ PostCleanup
  \/ UnroutedReturn

Spec == Init /\ [][Next]_vars

\* the filter chain of every request
FilterInit == Started /\ request \in Requests

FilterNext == BuildFilters

FilterSpec == FilterInit /\ [][FilterNext]_vars

\* The event loop runs every coroutine that is ready (asyncio runs the ready
\* callbacks in FIFO order, so a coroutine that is ready again and again is
\* run), a handler that holds the loop returns, and every subprocess returns.
HandlerReturns ==
  /\ WF_vars(ProcessRun) /\ WF_vars(ProcessReturn)
  /\ WF_vars(StatusReturn) /\ WF_vars(UnroutedReturn)

\* the download worker is scheduled and yt-dlp returns
FairWorker ==
  /\ Spec
  /\ SF_vars(StartDownload)
  /\ SF_vars(FinishDownload)
  /\ WF_vars(SweeperSleeps)
  /\ HandlerReturns

\* the sweeper is scheduled and its sleeps end
FairSweeper ==
  /\ Spec
  /\ SF_vars(SweepPass)
  /\ WF_vars(SweeperSleeps)
  /\ WF_vars(Wake)
  /\ HandlerReturns

TypeOK ==
  /\ TASKS \subseteq DOMAIN task
  /\ DOMAIN task \subseteq 1..(nextId - 1)
  /\ DOMAIN exits \subseteq DOMAIN task
  /\ \A id \in DOMAIN task :
       task[id].state \in {"queued", "downloading", "ready", "error"}
  /\ wPc \in {"get", "communicate"}
  /\ sPc \in {"run", "passed", "sleep"}
  /\ hPc \in {"idle", "ffmpeg", "return", "status", "unrouted"}
  /\ \A d \in DOMAIN dirs : dirs[d].age \in 0..MaxAge

\* ------------------------------------------------------------ properties
Terminal == {"ready", "error"}

\* position of x in the sequence s
Pos(s, x) == CHOOSE i \in 1..Len(s) : s[i] = x

NonEmpty(m) == m # None /\ m # ""

IsPrefix(p, q) == Len(p) <= Len(q) /\ \A i \in 1..Len(p) : p[i] = q[i]

\* C1: the values a task's state takes, in order, are a prefix of queued,
\* downloading, ready or of queued, downloading, error: no other change
\* happens and a ready or error task never changes state again, in any
\* interleaving of the actors.
StateMachine ==
  \A id \in DOMAIN task :
    /\ \/ IsPrefix(task[id].seen, <<"queued", "downloading", "ready">>)
       \/ IsPrefix(task[id].seen, <<"queued", "downloading", "error">>)
    /\ task[id].state = task[id].seen[Len(task[id].seen)]

\* one task finished ready and another error, with the sweeper at work
StateMachineWitness ==
  /\ \E a, b \in DOMAIN task :
       task[a].state = "ready" /\ task[b].state = "error"
  /\ lastPass.outcome = "ok"
  /\ lastPass.dropped # {}

\* C2: a registry task whose yt-dlp exited non-zero is in error with the
\* stderr text, or the fallback text for an empty stderr, as its non-empty
\* error_message; one whose yt-dlp exited 0 with audio.m4a present is ready
\* with error_message None.
DownloadOutcome ==
  \A id \in TASKS \cap DOMAIN exits :
    /\ exits[id].rc # 0 =>
         /\ task[id].state = "error"
         /\ NonEmpty(task[id].error_message)
         /\ task[id].error_message =
              (IF exits[id].stderr = "" THEN FallbackMessage
               ELSE exits[id].stderr)
    /\ (exits[id].rc = 0 /\ exits[id].audio) =>
         /\ task[id].state = "ready"
         /\ task[id].error_message = None

\* C10: a registry task whose yt-dlp exited 0 without leaving audio.m4a is
\* in error, not ready.
MissingOutputIsError ==
  \A id \in TASKS \cap DOMAIN exits :
    (exits[id].rc = 0 /\ ~exits[id].audio) => task[id].state = "error"

\* C3: yt-dlp processes start in the order the ids were put on the queue; when
\* one has started, every task submitted before it is off the queue and its
\* process, if it had one, has exited; at most one process runs and at most
\* one registry task is downloading.
FifoSerial ==
  /\ Cardinality(running) <= 1
  /\ Cardinality({id \in TASKS : task[id].state = "downloading"}) <= 1
  /\ \A i, j \in 1..Len(started) :
       i < j => Pos(submitted, started[i]) < Pos(submitted, started[j])
  /\ \A b \in Range(started) : \A a \in Range(submitted) :
       Pos(submitted, a) < Pos(submitted, b)
         => a \notin Range(QUEUE) /\ a \notin running

\* both downloads were spawned and the second is running
FifoSerialWitness == Len(started) = 2 /\ running = {started[2]}

\* C4: every queued task id is in the end dequeued and its task brought to
\* ready or error, whatever happened to the tasks before it.
WorkerProgress ==
  \A id \in TaskIds :
    (id \in Range(QUEUE))
      ~> (/\ id \notin Range(QUEUE)
          /\ id \in DOMAIN task
          /\ task[id].state \in Terminal)

\* a task ended in error by an exception and a later one was still served
WorkerProgressWitness ==
  \E a, b \in DOMAIN task :
    /\ a < b
    /\ task[a].error_message = StrOf("spawn")
    /\ task[b].state \in Terminal

SweeperNeverExits ==
  /\ [](sPc = "sleep" =>
          sleepFor = (IF lastPass.outcome = "raised" THEN RetryBackoff
                      ELSE SweepPeriod))
  /\ []<>(sPc = "run")
  /\ []<>(sPc = "sleep")

\* the backoff sleep after a pass that raised
SweeperNeverExitsWitness ==
  sPc = "sleep" /\ lastPass.outcome = "raised" /\ sleepFor = RetryBackoff

\* C7: a process request for an id not in the registry is answered 404, one
\* for a queued, downloading or error task 400; neither runs ffmpeg nor
\* creates an output file, and ffmpeg only ever runs for a ready task.
ProcessRejects ==
  /\ hPc = "return" =>
       /\ call.task_id \notin TASKS =>
            /\ call.status = 404 /\ call.detail = "Task not found"
            /\ ~call.ran /\ ~call.created
       /\ (call.task_id \in TASKS /\ task[call.task_id].state # "ready") =>
            /\ call.status = 400 /\ call.detail = "Task is not ready"
            /\ ~call.ran /\ ~call.created
  /\ hPc = "ffmpeg" =>
       call.task_id \in TASKS /\ task[call.task_id].state = "ready"

\* a request for a task in error has been rejected
ProcessRejectsWitness ==
  /\ hPc = "return"
  /\ call.task_id \in TASKS
  /\ task[call.task_id].state = "error"
  /\ call.status = 400

ErrorMessageIffError ==
  \A id \in TASKS :
    NonEmpty(task[id].error_message) <=> task[id].state = "error"

\* one task in error by the fallback text, another by an exception's text
ErrorMessageIffErrorWitness ==
  \E a, b \in TASKS :
    /\ task[a].state = "error" /\ task[a].error_message = FallbackMessage
    /\ task[b].state = "error" /\ task[b].error_message = StrOf("mkdir")

\* C11: a status query answers 404 exactly when the id is not in the registry
\* at the time of the query, and otherwise 200 with the state and
\* error_message the registry holds for the id then, the state being the
\* value last written to the task.
StatusQuery ==
  hPc = "status" =>
    /\ reply.status = 404 <=> reply.task_id \notin TASKS
    /\ reply.task_id \in TASKS =>
         /\ reply.status = 200
         /\ reply.state = task[reply.task_id].state
         /\ reply.state = task[reply.task_id].seen[Len(task[reply.task_id].seen)]
         /\ reply.error_message = task[reply.task_id].error_message

\* a query for a task in error is answered with its state and message, while
\* the sweeper has removed another id from the registry
StatusQueryWitness ==
  /\ hPc = "status"
  /\ reply.status = 200
  /\ reply.state = "error"
  /\ reply.error_message = FallbackMessage
  /\ \E id \in 1..(nextId - 1) : id \notin TASKS

\* which filter an item of the chain is, and the place of each in the
\* reference order: trim, denoise, fade-in, fade-out
Kind(x) == IF x.f = "afade" THEN x.t ELSE x.f

Rank(k) == CASE k = "atrim" -> 1 [] k = "afftdn" -> 2 [] k = "in" -> 3
             [] k = "out" -> 4

\* C12: the chain built for a request has the trim to [start, end) with the
\* timeline reset first, the denoise iff denoise is set, the fade-in iff
\* fade_in > 0, the fade-out iff 0 < fade_out < end - start, each once and in
\* that order, and a fade-out starts at the positive offset
\* end - start - fade_out.
FilterOrder ==
  filters # <<>> =>
    LET Has(k) == \E i \in 1..Len(filters) : Kind(filters[i]) = k IN
    /\ filters[1] = Atrim(request.start, request.end)
    /\ \A i, j \in 1..Len(filters) :
         i < j => Rank(Kind(filters[i])) < Rank(Kind(filters[j]))
    /\ Has("afftdn") <=> request.denoise
    /\ Has("in") <=> request.fade_in > 0
    /\ Has("out") <=> /\ 0 < request.fade_out
                      /\ request.fade_out < request.end - request.start
    /\ \A i \in 1..Len(filters) :
         /\ Kind(filters[i]) = "afftdn" => filters[i] = Afftdn
         /\ Kind(filters[i]) = "in" =>
              filters[i].st = 0 /\ filters[i].d = request.fade_in
         /\ Kind(filters[i]) = "out" =>
              /\ filters[i].d = request.fade_out
              /\ filters[i].st = request.end - request.start - request.fade_out
              /\ filters[i].st > 0

\* a chain with denoise and fade-in whose fade-out, as long as the clip, was
\* left out
FilterOrderWitness ==
  /\ Len(filters) = 3
  /\ request.denoise
  /\ request.fade_out > 0
  /\ request.fade_out = request.end - request.start

\* C13: POST /cleanup is served by a handler, is answered once one sweep pass
\* has run to its end, and that pass does to the directories and the registry
\* what a pass of the periodic sweeper does: no directory older than the
\* threshold keeps its registry entry unless the directory itself is kept.
OnDemandSweep ==
  [][(reply.request # "POST /cleanup" /\ reply'.request = "POST /cleanup") =>
       /\ Handler("POST", "/cleanup") # "none"
       /\ reply'.status = 200
       /\ \A d \in Aged(DOMAIN dirs) : d \in TASKS' => d \in DOMAIN dirs']_vars

\* C14: when the worker is back at the queue after an iteration whose except
\* branch ran (mkdir, the spawn or the decoding of stderr raised), the task of
\* that iteration is in state error; and a task in the registry is in state
\* downloading only while the worker awaits the subprocess of that very task.
ExceptionIsError ==
  /\ (wPc = "get" /\ wExc # "none") => task[wTask].state = "error"
  /\ \A id \in TASKS :
       task[id].state = "downloading" => (wPc = "communicate" /\ wTask = id)

\* mkdir raised for a task, which is in error, and the worker is back at the
\* queue with the next task waiting
ExceptionIsErrorWitness ==
  /\ wPc = "get"
  /\ wExc = "mkdir"
  /\ wTask \in TASKS
  /\ task[wTask].state = "error"
  /\ wTask \notin DOMAIN dirs
  /\ QUEUE # <<>>

\* C15: while a task is in state downloading, its directory made and the
\* worker waiting on its subprocess, no step (so no sweep pass) deletes the
\* task's directory or removes its registry entry.
NoSweepOfActiveDownload ==
  [][\A id \in TASKS \cap DOMAIN dirs :
       (task[id].state = "downloading" /\ wPc = "communicate" /\ wTask = id)
         => (id \in DOMAIN dirs' /\ id \in TASKS')]_vars

\* C16: in every step that takes a task into ready or error, the task's
\* directory exists when the step is over.
TerminalHasDirectory ==
  [][\A id \in DOMAIN task \cap DOMAIN task' :
       (task[id].state \notin Terminal /\ task'[id].state \in Terminal)
         => id \in DOMAIN dirs']_vars

NeverReused ==
  [][/\ \A id \in Range(submitted) : id \notin TASKS => id \notin TASKS'
     /\ \A id \in TASKS' \ TASKS : id \notin Range(submitted)]_vars

\* the sweeper removed a task during its download, the worker's except branch
\* has run for it since, and a task created later is in the registry
NeverReusedWitness ==
  /\ wPc = "get"
  /\ wExc = "decode"
  /\ wTask \notin TASKS
  /\ \E id \in TASKS : id > wTask

\* C19: every id on the queue is in the registry, in state queued; no step
\* (so no sweep pass) removes a queued task from the registry; and every id
\* the worker takes off the queue is in the registry, so that the worker's
\* 'not found' branch is never taken.
QueuedNeverSwept ==
  /\ [](\A id \in Range(QUEUE) : id \in TASKS /\ task[id].state = "queued")
  /\ [][\A id \in TASKS : task[id].state = "queued" => id \in TASKS']_vars
  /\ [][Len(QUEUE') < Len(QUEUE) => Head(QUEUE) \in TASKS]_vars

\* a pass has just removed a task from the registry while another waits on
\* the queue, and has left that one
QueuedNeverSweptWitness ==
  /\ sPc = "passed"
  /\ lastPass.dropped # {}
  /\ QUEUE # <<>>
  /\ Head(QUEUE) \in TASKS

====
